---- MODULE Spec2Model ----
(***************************************************************************)
(* Model of the chess analyzer GUI of src/main.py (class ChessAnalyzerGUI).*)
(* The event handlers click_square, hover_square, undo_move and redo_move  *)
(* are the actions; the chess.Board object they drive (python-chess) and   *)
(* the Stockfish wrapper they call are modelled by what those calls do.    *)
(***************************************************************************)
EXTENDS Integers, Sequences, FiniteSets, TLC

\* the attributes of the ChessAnalyzerGUI object
VARIABLES board, selected_square, last_move, legal_moves, hovered_square,
          redo_stack, stockfish, moves_text, eval_bar
\* history variables: what the event loop last ran (callback), and the board
\* and redo_stack as that handler found them (before)
VARIABLES callback, before
\* the handler the event loop is running and the call it has reached
\* (running), and the requests the evaluator has not yet answered (in_flight)
VARIABLES running, in_flight

gui == <<board, selected_square, last_move, legal_moves, hovered_square,
         redo_stack, stockfish, moves_text, eval_bar>>
io == <<running, in_flight>>
vars == <<gui, callback, before, io>>

(***************************************************************************)
(* Bounds of the exploration.                                              *)
(***************************************************************************)
\* longest game (plies in board.move_stack) explored
MaxPly == 3
\* most evaluator calls that raise in one run
MaxFailures == 1

\* Python's None, where a piece or a promotion piece is expected
None == "None"
\* Python's None, where a square is expected
NoSquare == -1

(***************************************************************************)
(* Squares, colours and pieces (python-chess conventions).                 *)
(***************************************************************************)
SQUARES == 0..63
WHITE == TRUE
BLACK == FALSE

square(file, rank) == rank * 8 + file
square_file(sq) == sq % 8
square_rank(sq) == sq \div 8

\* Piece.symbol(): upper case is White, lower case is Black
WhiteSymbols == {"P", "N", "B", "R", "Q", "K"}
BlackSymbols == {"p", "n", "b", "r", "q", "k"}
color_of(sym) == sym \in WhiteSymbols
piece_type(sym) ==
    CASE sym \in {"P", "p"} -> "pawn"
      [] sym \in {"N", "n"} -> "knight"
      [] sym \in {"B", "b"} -> "bishop"
      [] sym \in {"R", "r"} -> "rook"
      [] sym \in {"Q", "q"} -> "queen"
      [] sym \in {"K", "k"} -> "king"
      [] OTHER -> None
symbol(ptype, color) ==
    CASE ptype = "pawn" -> IF color THEN "P" ELSE "p"
      [] ptype = "knight" -> IF color THEN "N" ELSE "n"
      [] ptype = "bishop" -> IF color THEN "B" ELSE "b"
      [] ptype = "rook" -> IF color THEN "R" ELSE "r"
      [] ptype = "queen" -> IF color THEN "Q" ELSE "q"
      [] ptype = "king" -> IF color THEN "K" ELSE "k"

A1 == square(0, 0)
C1 == square(2, 0)
D1 == square(3, 0)
E1 == square(4, 0)
F1 == square(5, 0)
G1 == square(6, 0)
H1 == square(7, 0)
A8 == square(0, 7)
C8 == square(2, 7)
D8 == square(3, 7)
E8 == square(4, 7)
F8 == square(5, 7)
G8 == square(6, 7)
H8 == square(7, 7)

\* chess.Move(from_square, to_square, promotion=None)
Move(from, to) == [from_square |-> from, to_square |-> to, promotion |-> None]
MoveP(from, to, promo) == [from_square |-> from, to_square |-> to, promotion |-> promo]

(***************************************************************************)
(* chess.Board(): the standard starting position.                          *)
(***************************************************************************)
BackRank == <<"rook", "knight", "bishop", "queen", "king", "bishop", "knight", "rook">>

StartingPieces ==
    [sq \in SQUARES |->
        CASE square_rank(sq) = 0 -> symbol(BackRank[square_file(sq) + 1], WHITE)
          [] square_rank(sq) = 1 -> "P"
          [] square_rank(sq) = 6 -> "p"
          [] square_rank(sq) = 7 -> symbol(BackRank[square_file(sq) + 1], BLACK)
          [] OTHER -> None]

NewBoard ==
    [pieces |-> StartingPieces,
     turn |-> WHITE,
     castling_rights |-> {A1, H1, A8, H8},
     ep_square |-> NoSquare,
     halfmove_clock |-> 0,
     fullmove_number |-> 1,
     move_stack |-> <<>>,
     stack |-> <<>>]

\* Board.piece_at(square)
piece_at(b, sq) == b.pieces[sq]

occupied(pieces) == {s \in SQUARES : pieces[s] # None}
occupied_co(pieces, color) == {s \in SQUARES : pieces[s] # None /\ color_of(pieces[s]) = color}

(***************************************************************************)
(* Attack tables and sliding attacks.                                      *)
(***************************************************************************)
OnBoard(f, r) == f \in 0..7 /\ r \in 0..7

StepAttacks(sq, deltas) ==
    {square(square_file(sq) + d[1], square_rank(sq) + d[2]) :
        d \in {e \in deltas : OnBoard(square_file(sq) + e[1], square_rank(sq) + e[2])}}

KnightDeltas == {<<1, 2>>, <<2, 1>>, <<2, -1>>, <<1, -2>>,
                 <<-1, -2>>, <<-2, -1>>, <<-2, 1>>, <<-1, 2>>}
KingDeltas == {<<1, 0>>, <<1, 1>>, <<0, 1>>, <<-1, 1>>,
               <<-1, 0>>, <<-1, -1>>, <<0, -1>>, <<1, -1>>}
RookDeltas == {<<1, 0>>, <<0, 1>>, <<-1, 0>>, <<0, -1>>}
BishopDeltas == {<<1, 1>>, <<-1, 1>>, <<-1, -1>>, <<1, -1>>}

BB_KNIGHT_ATTACKS == [sq \in SQUARES |-> StepAttacks(sq, KnightDeltas)]
BB_KING_ATTACKS == [sq \in SQUARES |-> StepAttacks(sq, KingDeltas)]
\* BB_PAWN_ATTACKS[color][square]: the squares a pawn of that colour on square attacks
BB_PAWN_ATTACKS ==
    [color \in BOOLEAN |->
        [sq \in SQUARES |->
            StepAttacks(sq, IF color THEN {<<-1, 1>>, <<1, 1>>} ELSE {<<-1, -1>>, <<1, -1>>})]]

\* the squares seen from (f, r) in direction (df, dr), up to and including the
\* first square of occ
RECURSIVE Ray(_, _, _, _, _)
Ray(occ, f, r, df, dr) ==
    IF ~OnBoard(f + df, r + dr) THEN {}
    ELSE LET s == square(f + df, r + dr)
         IN IF s \in occ THEN {s} ELSE {s} \cup Ray(occ, f + df, r + dr, df, dr)

SlidingAttacks(occ, sq, deltas) ==
    UNION {Ray(occ, square_file(sq), square_rank(sq), d[1], d[2]) : d \in deltas}

\* Board.attacks_mask(square): the squares attacked by the piece on sq
attacks_mask(pieces, sq) ==
    LET t == piece_type(pieces[sq])
    IN CASE t = "pawn" -> BB_PAWN_ATTACKS[color_of(pieces[sq])][sq]
         [] t = "knight" -> BB_KNIGHT_ATTACKS[sq]
         [] t = "king" -> BB_KING_ATTACKS[sq]
         [] t = "bishop" -> SlidingAttacks(occupied(pieces), sq, BishopDeltas)
         [] t = "rook" -> SlidingAttacks(occupied(pieces), sq, RookDeltas)
         [] t = "queen" -> SlidingAttacks(occupied(pieces), sq, RookDeltas \cup BishopDeltas)
         [] OTHER -> {}

\* the squares among orth (rank and file rays from sq) and diag (diagonal
\* rays from sq) and the step tables that hold an attacker of color
attackers_among(pieces, color, sq, orth, diag) ==
    {s \in BB_KING_ATTACKS[sq] : pieces[s] = symbol("king", color)}
    \cup {s \in BB_KNIGHT_ATTACKS[sq] : pieces[s] = symbol("knight", color)}
    \cup {s \in BB_PAWN_ATTACKS[~color][sq] : pieces[s] = symbol("pawn", color)}
    \cup {s \in orth : pieces[s] \in {symbol("rook", color), symbol("queen", color)}}
    \cup {s \in diag : pieces[s] \in {symbol("bishop", color), symbol("queen", color)}}

\* Board._attackers_mask(color, square, occupied): the squares holding a piece
\* of color that attacks sq, sliders being blocked by occ
attackers_mask(pieces, color, sq, occ) ==
    attackers_among(pieces, color, sq, SlidingAttacks(occ, sq, RookDeltas),
                    SlidingAttacks(occ, sq, BishopDeltas))

\* Board.is_attacked_by(color, square)
is_attacked_by(pieces, color, sq) == attackers_mask(pieces, color, sq, occupied(pieces)) # {}

\* Board.king(color): the square of the king of color, or None (NoSquare)
king(pieces, color) ==
    LET ks == {s \in SQUARES : pieces[s] = symbol("king", color)}
    IN IF ks = {} THEN NoSquare ELSE CHOOSE s \in ks : \A o \in ks : o <= s

(***************************************************************************)
(* Castling (Board.clean_castling_rights, Board.generate_castling_moves).  *)
(***************************************************************************)
\* Board.clean_castling_rights(): the rook squares that still carry a right,
\* in standard chess (rooks on a1/h1/a8/h8 with the king on e1/e8)
clean_castling_rights(b) ==
    LET side(color, krank) ==
            IF b.pieces[square(4, krank)] # symbol("king", color) THEN {}
            ELSE {s \in b.castling_rights :
                    /\ s \in {square(0, krank), square(7, krank)}
                    /\ b.pieces[s] = symbol("rook", color)}
    IN side(WHITE, 0) \cup side(BLACK, 7)

\* chess.between(a, b) for two squares of one rank
between(a, c) ==
    {s \in SQUARES : /\ square_rank(s) = square_rank(a)
                     /\ square_rank(s) = square_rank(c)
                     /\ \/ a < s /\ s < c
                        \/ c < s /\ s < a}

\* Board._attacked_for_king(path, occupied)
attacked_for_king(b, path, occ) ==
    \E sq \in path : attackers_mask(b.pieces, ~b.turn, sq, occ) # {}

SymDiff(S, T) == (S \ T) \cup (T \ S)

\* whether castling with the rook on candidate is pseudo-legal and safe
can_castle(b, candidate) ==
    LET backrank == IF b.turn = WHITE THEN 0 ELSE 7
        kings == {s \in SQUARES : b.pieces[s] = symbol("king", b.turn) /\ square_rank(s) = backrank}
    IN /\ kings # {}
       /\ candidate \in clean_castling_rights(b)
       /\ square_rank(candidate) = backrank
       /\ LET k == CHOOSE s \in kings : \A o \in kings : s <= o
              a_side == candidate < k
              king_to == square(IF a_side THEN 2 ELSE 6, backrank)
              rook_to == square(IF a_side THEN 3 ELSE 5, backrank)
              king_path == between(k, king_to)
              rook_path == between(candidate, rook_to)
              occ == occupied(b.pieces)
          IN /\ (SymDiff(SymDiff(occ, {k}), {candidate})
                    \cap (king_path \cup rook_path \cup {king_to, rook_to})) = {}
             /\ ~attacked_for_king(b, king_path \cup {k}, SymDiff(occ, {k}))
             /\ ~attacked_for_king(b, {king_to},
                    SymDiff(SymDiff(SymDiff(occ, {k}), {candidate}), {rook_to}))

\* Board._from_chess960(chess960=False, ...): king-takes-rook becomes the
\* king's two-square move
from_chess960(b, m) ==
    IF m.from_square = E1 /\ b.pieces[E1] \in {"K", "k"} /\ m.to_square = H1 THEN Move(E1, G1)
    ELSE IF m.from_square = E1 /\ b.pieces[E1] \in {"K", "k"} /\ m.to_square = A1 THEN Move(E1, C1)
    ELSE IF m.from_square = E8 /\ b.pieces[E8] \in {"K", "k"} /\ m.to_square = H8 THEN Move(E8, G8)
    ELSE IF m.from_square = E8 /\ b.pieces[E8] \in {"K", "k"} /\ m.to_square = A8 THEN Move(E8, C8)
    ELSE m

\* Board._to_chess960(move): the king's two-square move becomes king-takes-rook
to_chess960(b, m) ==
    LET rookless(s) == b.pieces[s] \notin {"R", "r"}
    IN IF m.from_square = E1 /\ b.pieces[E1] \in {"K", "k"} /\ m.to_square = G1 /\ rookless(G1)
            THEN [m EXCEPT !.to_square = H1]
       ELSE IF m.from_square = E1 /\ b.pieces[E1] \in {"K", "k"} /\ m.to_square = C1 /\ rookless(C1)
            THEN [m EXCEPT !.to_square = A1]
       ELSE IF m.from_square = E8 /\ b.pieces[E8] \in {"K", "k"} /\ m.to_square = G8 /\ rookless(G8)
            THEN [m EXCEPT !.to_square = H8]
       ELSE IF m.from_square = E8 /\ b.pieces[E8] \in {"K", "k"} /\ m.to_square = C8 /\ rookless(C8)
            THEN [m EXCEPT !.to_square = A8]
       ELSE m

\* Board.generate_castling_moves(), in the order generated (h-side first)
generate_castling_moves(b) ==
    LET backrank == IF b.turn = WHITE THEN 0 ELSE 7
        e == square(4, backrank)
        h == IF can_castle(b, square(7, backrank)) THEN <<Move(e, square(6, backrank))>> ELSE <<>>
        a == IF can_castle(b, square(0, backrank)) THEN <<Move(e, square(2, backrank))>> ELSE <<>>
    IN h \o a

Range(seq) == {seq[i] : i \in DOMAIN seq}

\* Board.is_castling(move)
is_castling(b, m) ==
    /\ b.pieces[m.from_square] \in {"K", "k"}
    /\ \/ square_file(m.from_square) - square_file(m.to_square) > 1
       \/ square_file(m.to_square) - square_file(m.from_square) > 1
       \/ b.pieces[m.to_square] = symbol("rook", b.turn)

\* Board.is_en_passant(move)
is_en_passant(b, m) ==
    /\ b.ep_square = m.to_square
    /\ b.pieces[m.from_square] \in {"P", "p"}
    /\ (m.to_square - m.from_square) \in {7, 9, -7, -9}
    /\ b.pieces[m.to_square] = None

(***************************************************************************)
(* Pawn moves (Board.generate_pseudo_legal_moves, generate_pseudo_legal_ep)*)
(***************************************************************************)
PromotionPieces == <<"queen", "rook", "bishop", "knight">>

\* a set of squares as the sequence scan_reversed yields: highest first
RECURSIVE scan_reversed(_)
scan_reversed(S) ==
    IF S = {} THEN <<>>
    ELSE LET m == CHOOSE x \in S : \A y \in S : y <= x
         IN <<m>> \o scan_reversed(S \ {m})

RECURSIVE Flatten(_)
Flatten(seqs) == IF seqs = <<>> THEN <<>> ELSE Head(seqs) \o Flatten(Tail(seqs))

\* a generator that also offers the bare move onto a back rank
pawn_move_plain(from, to) == <<Move(from, to)>>

\* the move, or its four promotions when it lands on a back rank
pawn_move_to(from, to) ==
    IF square_rank(to) \in {0, 7}
    THEN [i \in 1..4 |-> MoveP(from, to, PromotionPieces[i])]
    ELSE <<Move(from, to)>>

\* the pseudo-legal moves of the pawn of the side to move on from, in the
\* order generated: captures, single step, double step, en passant
pawn_moves(b, from) ==
    LET fwd == IF b.turn = WHITE THEN 8 ELSE -8
        occ == occupied(b.pieces)
        targets == BB_PAWN_ATTACKS[b.turn][from] \cap occupied_co(b.pieces, ~b.turn)
        caps == scan_reversed(targets)
        one == from + fwd
        two == from + 2 * fwd
        single_ok == one \in SQUARES /\ one \notin occ
        double_ok == /\ single_ok
                     /\ two \in SQUARES
                     /\ two \notin occ
                     /\ square_rank(two) = (IF b.turn = WHITE THEN 3 ELSE 4)
        ep_ok == /\ b.ep_square # NoSquare
                 /\ b.ep_square # 0
                 /\ b.ep_square \notin occ
                 /\ from \in BB_PAWN_ATTACKS[~b.turn][b.ep_square]
                 /\ square_rank(from) = (IF b.turn = WHITE THEN 4 ELSE 3)
    IN Flatten([i \in 1..Len(caps) |-> pawn_move_to(from, caps[i])])
       \o (IF single_ok THEN pawn_move_to(from, one) ELSE <<>>)
       \o (IF double_ok THEN <<Move(from, two)>> ELSE <<>>)
       \o (IF ep_ok THEN <<Move(from, b.ep_square)>> ELSE <<>>)

(***************************************************************************)
(* Board.push and Board.pop.                                               *)
(***************************************************************************)
\* Board.is_zeroing(move): a pawn move or a capture
is_zeroing(b, m) ==
    \/ b.pieces[m.from_square] \in {"P", "p"}
    \/ b.pieces[m.to_square] \in {"P", "p"}
    \/ m.from_square \in occupied_co(b.pieces, ~b.turn)
    \/ m.to_square \in occupied_co(b.pieces, ~b.turn)

\* Board._remove_piece_at / Board._set_piece_at
remove_piece_at(pieces, sq) == [pieces EXCEPT ![sq] = None]
set_piece_at(pieces, sq, sym) == [pieces EXCEPT ![sq] = sym]

\* the piece placement Board.push(move) leaves, move being in the internal
\* (king-takes-rook) form
pieces_after(b, mv) ==
    LET from == mv.from_square
        to == mv.to_square
        moved == b.pieces[from]
        ptype == piece_type(moved)
        diff == to - from
        ep_capture == /\ ptype = "pawn"
                      /\ ~(diff = 16 /\ square_rank(from) = 1)
                      /\ ~(diff = -16 /\ square_rank(from) = 6)
                      /\ to = b.ep_square
                      /\ diff \in {7, 9, -7, -9}
                      /\ b.pieces[to] = None
        down == IF b.turn = WHITE THEN -8 ELSE 8
        placed == IF mv.promotion # None THEN symbol(mv.promotion, b.turn) ELSE moved
        castling == /\ ptype = "king"
                    /\ mv.promotion = None
                    /\ b.pieces[to] # None
                    /\ color_of(b.pieces[to]) = b.turn
        a_side == square_file(to) < square_file(from)
        krank == IF b.turn = WHITE THEN 0 ELSE 7
    IN IF castling
       THEN set_piece_at(
                set_piece_at(remove_piece_at(remove_piece_at(b.pieces, from), to),
                             square(IF a_side THEN 2 ELSE 6, krank), symbol("king", b.turn)),
                square(IF a_side THEN 3 ELSE 5, krank), symbol("rook", b.turn))
       ELSE IF ep_capture
            THEN set_piece_at(remove_piece_at(remove_piece_at(b.pieces, from), to + down),
                              to, placed)
            ELSE set_piece_at(remove_piece_at(b.pieces, from), to, placed)

\* Board._board_state(): what Board.pop restores
board_state(b) ==
    [pieces |-> b.pieces,
     turn |-> b.turn,
     castling_rights |-> b.castling_rights,
     ep_square |-> b.ep_square,
     halfmove_clock |-> b.halfmove_clock,
     fullmove_number |-> b.fullmove_number]

\* Board.push(move)
push(b, m) ==
    LET mv == to_chess960(b, m)
        from == mv.from_square
        to == mv.to_square
        ptype == piece_type(b.pieces[from])
        cleaned == clean_castling_rights(b)
        rights1 == cleaned \ {from, to}
        rights2 == IF ptype = "king"
                   THEN {s \in rights1 : square_rank(s) # (IF b.turn = WHITE THEN 0 ELSE 7)}
                   ELSE rights1
        diff == to - from
        ep == IF ptype = "pawn" /\ diff = 16 /\ square_rank(from) = 1 THEN from + 8
              ELSE IF ptype = "pawn" /\ diff = -16 /\ square_rank(from) = 6 THEN from - 8
              ELSE NoSquare
    IN [pieces |-> pieces_after(b, mv),
        turn |-> ~b.turn,
        castling_rights |-> rights2,
        ep_square |-> ep,
        halfmove_clock |-> IF is_zeroing(b, mv) THEN 0 ELSE b.halfmove_clock + 1,
        fullmove_number |-> IF b.turn = BLACK THEN b.fullmove_number + 1 ELSE b.fullmove_number,
        move_stack |-> Append(b.move_stack, from_chess960(b, mv)),
        stack |-> Append(b.stack, board_state(b))]

Front(seq) == SubSeq(seq, 1, Len(seq) - 1)
Last(seq) == seq[Len(seq)]

\* a pop() that restores everything but the en-passant square
pop_keeping_ep_square(b) ==
    LET st == Last(b.stack)
    IN [pieces |-> st.pieces,
        turn |-> st.turn,
        castling_rights |-> st.castling_rights,
        ep_square |-> b.ep_square,
        halfmove_clock |-> st.halfmove_clock,
        fullmove_number |-> st.fullmove_number,
        move_stack |-> Front(b.move_stack),
        stack |-> Front(b.stack)]

\* a pop() that restores everything but the castling rights
pop_keeping_castling_rights(b) ==
    LET st == Last(b.stack)
    IN [pieces |-> st.pieces,
        turn |-> st.turn,
        castling_rights |-> b.castling_rights,
        ep_square |-> st.ep_square,
        halfmove_clock |-> st.halfmove_clock,
        fullmove_number |-> st.fullmove_number,
        move_stack |-> Front(b.move_stack),
        stack |-> Front(b.stack)]

\* Board.pop(): the board with the last move taken back (the move itself is
\* Last(b.move_stack))
pop(b) ==
    LET st == Last(b.stack)
    IN [pieces |-> st.pieces,
        turn |-> st.turn,
        castling_rights |-> st.castling_rights,
        ep_square |-> st.ep_square,
        halfmove_clock |-> st.halfmove_clock,
        fullmove_number |-> st.fullmove_number,
        move_stack |-> Front(b.move_stack),
        stack |-> Front(b.stack)]

(***************************************************************************)
(* Legality (Board.is_pseudo_legal, is_into_check, is_legal, legal_moves). *)
(***************************************************************************)
\* Board.is_pseudo_legal(move)
is_pseudo_legal(b, m) ==
    LET from == m.from_square
        to == m.to_square
        ptype == piece_type(b.pieces[from])
    IN /\ ~(from = 0 /\ to = 0 /\ m.promotion = None)
       /\ b.pieces[from] # None
       /\ color_of(b.pieces[from]) = b.turn
       /\ m.promotion # None =>
            /\ ptype = "pawn"
            /\ square_rank(to) = (IF b.turn = WHITE THEN 7 ELSE 0)
       /\ \/ ptype = "king" /\ from_chess960(b, m) \in Range(generate_castling_moves(b))
          \/ /\ to \notin occupied_co(b.pieces, b.turn)
             /\ IF ptype = "pawn" THEN m \in Range(pawn_moves(b, from))
                ELSE to \in attacks_mask(b.pieces, from)

\* an is_into_check that lets every pseudo-legal move through
never_into_check(b, m) == FALSE

\* Board.is_into_check(move), for a pseudo-legal move: whether the mover's
\* king is attacked once the move is made
is_into_check(b, m) ==
    IF is_castling(b, m) THEN FALSE
    ELSE LET after == pieces_after(b, m)
             k == king(after, b.turn)
         IN k # NoSquare /\ is_attacked_by(after, ~b.turn, k)

\* Board.is_legal(move), which decides `move in board.legal_moves`
is_legal(b, m) == is_pseudo_legal(b, m) /\ ~is_into_check(b, m)

\* the moves of board.legal_moves that start on from, in the order generated
legal_moves_from(b, from) ==
    LET ptype == piece_type(b.pieces[from])
        legal(m) == is_legal(b, m)
        targets == scan_reversed(attacks_mask(b.pieces, from) \ occupied_co(b.pieces, b.turn))
        steps == [i \in 1..Len(targets) |-> Move(from, targets[i])]
        castles == IF ptype = "king"
                   THEN SelectSeq(generate_castling_moves(b), LAMBDA m : m.from_square = from)
                   ELSE <<>>
    IN IF b.pieces[from] = None \/ color_of(b.pieces[from]) # b.turn THEN <<>>
       ELSE IF ptype = "pawn" THEN SelectSeq(pawn_moves(b, from), legal)
       ELSE SelectSeq(steps, legal) \o castles

\* every move of board.legal_moves
LegalMoves(b) ==
    UNION {Range(legal_moves_from(b, from)) : from \in occupied_co(b.pieces, b.turn)}

\* Board.is_check()
is_check(b) ==
    LET k == king(b.pieces, b.turn)
    IN k # NoSquare /\ is_attacked_by(b.pieces, ~b.turn, k)

(***************************************************************************)
(* Board.fen(): what is sent to the evaluator.                             *)
(***************************************************************************)
\* one rank of the board part: piece symbols, runs of empty squares counted
RECURSIVE fen_rank(_, _, _, _)
fen_rank(pieces, rank, file, empty) ==
    IF file > 7 THEN (IF empty > 0 THEN <<empty>> ELSE <<>>)
    ELSE LET p == pieces[square(file, rank)]
         IN IF p = None THEN fen_rank(pieces, rank, file + 1, empty + 1)
            ELSE (IF empty > 0 THEN <<empty>> ELSE <<>>)
                 \o <<p>> \o fen_rank(pieces, rank, file + 1, 0)

\* Board.board_fen(): ranks 8 down to 1
board_fen(pieces) == [i \in 1..8 |-> fen_rank(pieces, 8 - i, 0, 0)]

\* Board.castling_xfen(): K, Q, k, q for the rights left
castling_xfen(b) ==
    LET r == clean_castling_rights(b)
    IN (IF H1 \in r THEN <<"K">> ELSE <<>>) \o (IF A1 \in r THEN <<"Q">> ELSE <<>>)
       \o (IF H8 \in r THEN <<"k">> ELSE <<>>) \o (IF A8 \in r THEN <<"q">> ELSE <<>>)

\* Board.has_legal_en_passant()
has_legal_en_passant(b) ==
    /\ b.ep_square # NoSquare
    /\ \E from \in occupied_co(b.pieces, b.turn) :
          /\ b.pieces[from] \in {"P", "p"}
          /\ is_en_passant(b, Move(from, b.ep_square))
          /\ is_legal(b, Move(from, b.ep_square))

\* Board.fen(): the en-passant square is given only when a capture onto it
\* is legal
fen(b) ==
    [board |-> board_fen(b.pieces),
     turn |-> IF b.turn = WHITE THEN "w" ELSE "b",
     castling |-> castling_xfen(b),
     ep |-> IF has_legal_en_passant(b) THEN b.ep_square ELSE NoSquare,
     halfmove_clock |-> b.halfmove_clock,
     fullmove_number |-> b.fullmove_number]

(***************************************************************************)
(* The evaluator (the Stockfish wrapper object) and the two widgets that   *)
(* show its score.                                                         *)
(***************************************************************************)
SQUARE_SIZE == 64

\* replies of get_evaluation: a centipawn score, a mate distance, and a
\* reply of another type
CpReply == [type |-> "cp", value |-> 35]
MateReply == [type |-> "mate", value |-> -2]
OtherReply == [type |-> "other", value |-> 0]

\* the evaluator calls one handler makes after changing the board, in order:
\* set_fen_position in the handler, then update_moves_text (set_fen_position,
\* get_evaluation) and draw_eval_bar (set_fen_position, get_evaluation)
EvaluatorCalls ==
    <<"set_fen_position", "set_fen_position", "get_evaluation",
      "set_fen_position", "get_evaluation">>

Answer(n, r1, r2) == [fail_at |-> n, text_reply |-> r1, bar_reply |-> r2]

\* how the evaluator answers those calls: fail_at is the first call that
\* raises (0: none does), text_reply and bar_reply are what the two
\* get_evaluation calls return when they are reached
Oracles ==
    {Answer(0, CpReply, CpReply), Answer(0, MateReply, MateReply),
     Answer(0, OtherReply, OtherReply)}
    \cup {Answer(n, CpReply, CpReply) : n \in 1..5}

FILE_NAMES == <<"a", "b", "c", "d", "e", "f", "g", "h">>

\* Move.uci(): the squares' names, then the promotion piece's letter
uci(m) ==
    <<FILE_NAMES[square_file(m.from_square) + 1], square_rank(m.from_square) + 1,
      FILE_NAMES[square_file(m.to_square) + 1], square_rank(m.to_square) + 1>>
    \o (IF m.promotion = None THEN <<>> ELSE <<symbol(m.promotion, BLACK)>>)

\* the numbered move list update_moves_text writes
RECURSIVE moves_listing(_, _)
moves_listing(moves, i) ==
    IF i >= Len(moves) THEN <<>>
    ELSE (IF i % 2 = 0 THEN <<<<i \div 2 + 1, ".">>>> ELSE <<>>)
         \o <<uci(moves[i + 1])>>
         \o (IF i % 2 = 1 THEN <<"\n">> ELSE <<>>)
         \o moves_listing(moves, i + 1)

\* f"{value/100:.2f}": sign, whole part and two decimals
two_decimals(value) ==
    LET magnitude == IF value < 0 THEN -value ELSE value
    IN <<IF value < 0 THEN "-" ELSE "", magnitude \div 100, magnitude % 100>>

\* the evaluation line update_moves_text appends for a reply
evaluation_line(eval_info) ==
    IF eval_info.type = "cp" THEN <<"Evaluation", two_decimals(eval_info.value)>>
    ELSE IF eval_info.type = "mate" THEN <<"Mate in", eval_info.value>>
    ELSE <<>>

\* a draw_eval_bar that does not clamp the score
white_height_unclamped(eval_info) ==
    LET height == 8 * SQUARE_SIZE
    IN IF eval_info.type = "cp" THEN ((eval_info.value + 1000) * height) \div 2000
       ELSE IF eval_info.type = "mate" THEN (IF eval_info.value > 0 THEN height ELSE 0)
       ELSE height \div 2

\* the height of the green part draw_eval_bar draws for a reply
white_height(eval_info) ==
    LET height == 8 * SQUARE_SIZE
        score == IF eval_info.value > 1000 THEN 1000
                 ELSE IF eval_info.value < -1000 THEN -1000
                 ELSE eval_info.value
    IN IF eval_info.type = "cp" THEN ((score + 1000) * height) \div 2000
       ELSE IF eval_info.type = "mate" THEN (IF eval_info.value > 0 THEN height ELSE 0)
       ELSE height \div 2

\* the two rectangles draw_eval_bar creates
bar_items(eval_info) ==
    LET height == 8 * SQUARE_SIZE
    IN <<[fill |-> "red", y0 |-> 0, y1 |-> height],
         [fill |-> "green", y0 |-> height - white_height(eval_info), y1 |-> height]>>

\* a set_fen_position that never reaches the evaluator
set_fen_position_dropped(sf, f) == sf

\* Stockfish.set_fen_position(fen): the evaluator holds the position
set_fen_position(sf, f) == [sf EXCEPT !.fen = f]

\* Stockfish.get_evaluation(): the reply, with the position it is about
get_evaluation(sf, reply) == [type |-> reply.type, value |-> reply.value, position |-> sf.fen]

\* the handler's own set_fen_position, then update_moves_text() with its
\* draw_eval_bar(): the evaluator and the two widgets after the calls of
\* EvaluatorCalls, answered by oracle o; f is board.fen() and listing the
\* numbered list of board.move_stack.  A call that raises ends the handler.
\* Each widget keeps, with what it shows, the position the evaluation was
\* asked for and the reply it was written from.
evaluate(f, listing, sf, text, bar, o) ==
    LET passed(n) == o.fail_at = 0 \/ o.fail_at > n
        sf1 == IF passed(1) THEN set_fen_position(sf, f) ELSE sf
        sf2 == IF passed(2) THEN set_fen_position(sf1, f) ELSE sf1
        text_info == get_evaluation(sf2, o.text_reply)
        sf4 == IF passed(4) THEN set_fen_position(sf2, f) ELSE sf2
        bar_info == get_evaluation(sf4, o.bar_reply)
    IN [stockfish |-> [sf4 EXCEPT !.failures = IF o.fail_at = 0 THEN @ ELSE @ + 1],
        moves_text |->
            IF ~passed(1) THEN text
            ELSE IF ~passed(3)
                 THEN [text |-> listing, evaluation |-> <<>>, position |-> <<>>, reply |-> <<>>]
                 ELSE [text |-> listing,
                       evaluation |-> evaluation_line(text_info),
                       position |-> <<text_info.position>>,
                       reply |-> <<o.text_reply>>],
        eval_bar |->
            IF ~passed(3) THEN bar
            ELSE IF ~passed(5) THEN [items |-> <<>>, position |-> <<>>, reply |-> <<>>]
                 ELSE [items |-> bar_items(bar_info), position |-> <<bar_info.position>>,
                       reply |-> <<o.bar_reply>>],
        raised |-> o.fail_at # 0,
        calls |-> IF o.fail_at = 0 THEN EvaluatorCalls
                  ELSE SubSeq(EvaluatorCalls, 1, o.fail_at)]

(***************************************************************************)
(* The GUI object: construction and event handlers.                        *)
(***************************************************************************)
\* Python's None, where a move is expected
NoMove == [from_square |-> NoSquare, to_square |-> NoSquare, promotion |-> None]

\* the squares the user clicks and hovers over in the exploration
G5 == square(6, 4)
G7 == square(6, 6)
H2 == square(7, 1)
H4 == square(7, 3)
ClickSquares == {H1, H2, H4, G5, G7}
HoverSquares == {H4}

\* an exploration: the longest game played and the oracles the evaluator
\* follows (here it answers in centipawns, or a call raises)
Play == [max_ply |-> MaxPly, oracles |-> {o \in Oracles : o.text_reply = CpReply}]

\* the oracles the evaluator may still follow: a call raises only while
\* fewer than MaxFailures calls have
OraclesFor(run, sf) ==
    {o \in run.oracles : o.fail_at = 0 \/ sf.failures < MaxFailures}

\* what the event loop last ran: the handler, what it did, the move it built
\* or took from a stack (NoMove when it had none), whether it ended by raising
\* (Tk reports the exception and goes on), and the evaluator calls it made
Ran(handler, outcome, move, raised, calls) ==
    [handler |-> handler, outcome |-> outcome, move |-> move, raised |-> raised,
     calls |-> calls]

\* what a handler finds when it starts
Found == [board |-> board, redo_stack |-> redo_stack]

\* a handler at its evaluator call number at (of EvaluatorCalls), waiting for
\* the answer or not
Running(handler, outcome, move, at, waiting) ==
    [handler |-> handler, outcome |-> outcome, move |-> move, at |-> at,
     waiting |-> waiting]

\* no handler running
Idle == Running("", "", NoMove, 0, FALSE)

\* ChessAnalyzerGUI.__init__, the evaluator following one of oracles
construct(oracles) ==
    \E o \in oracles :
        /\ o.fail_at = 0
        /\ LET ev == evaluate(fen(NewBoard), moves_listing(NewBoard.move_stack, 0),
                              [fen |-> fen(NewBoard), failures |-> 0],
                              [text |-> <<>>, evaluation |-> <<>>, position |-> <<>>,
                               reply |-> <<>>],
                              [items |-> <<>>, position |-> <<>>, reply |-> <<>>], o)
           IN /\ board = NewBoard
              /\ selected_square = NoSquare
              /\ last_move = NoMove
              /\ legal_moves = <<>>
              /\ hovered_square = NoSquare
              /\ redo_stack = <<>>
              /\ stockfish = ev.stockfish
              /\ moves_text = ev.moves_text
              /\ eval_bar = ev.eval_bar
              /\ callback = Ran("__init__", "constructed", NoMove, FALSE, ev.calls)
              /\ before = [board |-> NewBoard, redo_stack |-> <<>>]
              /\ running = Idle
              /\ in_flight = <<>>

Init == construct(Oracles)

\* the to_square of every legal move from square, as click_square lists them
destinations(b, sq) ==
    LET ms == legal_moves_from(b, sq)
    IN [i \in 1..Len(ms) |-> ms[i].to_square]

\* self.stockfish.set_fen_position(self.board.fen()); self.update_moves_text()
\* as the handlers call them once the board is b
refresh(run, b, handler, outcome, move) ==
    \E f \in {fen(b)}, listing \in {moves_listing(b.move_stack, 0)} :
    \E o \in OraclesFor(run, stockfish) :
    \E ev \in {evaluate(f, listing, stockfish, moves_text, eval_bar, o)} :
        /\ stockfish' = ev.stockfish
        /\ moves_text' = ev.moves_text
        /\ eval_bar' = ev.eval_bar
        /\ callback' = Ran(handler, outcome, move, ev.raised, ev.calls)

\* click_square with nothing selected: select the piece on sq when it is of
\* the side to move
select_piece(sq) ==
    \E piece \in {piece_at(board, sq)} :
        /\ IF piece # None /\ color_of(piece) = board.turn
           THEN /\ selected_square' = sq
                /\ legal_moves' = destinations(board, sq)
                /\ callback' = Ran("click_square", "selected", NoMove, FALSE, <<>>)
           ELSE /\ UNCHANGED <<selected_square, legal_moves>>
                /\ callback' = Ran("click_square", "ignored", NoMove, FALSE, <<>>)
        /\ UNCHANGED <<board, last_move, hovered_square, redo_stack, stockfish,
                       moves_text, eval_bar>>

\* a clear() that leaves the newest entry
cleared_but_last(stack) == IF stack = <<>> THEN <<>> ELSE <<stack[Len(stack)]>>

\* a clear() that leaves the entries in place
kept(stack) == stack

\* self.redo_stack.clear()
cleared(stack) == <<>>

\* a click_square that records the move it refuses as the last move
try_move_marking(sq, run) ==
    \E move \in {Move(selected_square, sq)} :
        IF is_legal(board, move)
        THEN /\ Len(board.move_stack) < run.max_ply
             /\ \E b \in {push(board, move)} :
                  /\ board' = b
                  /\ last_move' = move
                  /\ redo_stack' = cleared(redo_stack)
                  /\ refresh(run, b, "click_square", "applied", move)
                  /\ IF callback'.raised
                     THEN UNCHANGED <<selected_square, legal_moves>>
                     ELSE selected_square' = NoSquare /\ legal_moves' = <<>>
                  /\ UNCHANGED hovered_square
        ELSE /\ selected_square' = NoSquare
             /\ legal_moves' = <<>>
             /\ last_move' = move
             /\ callback' = Ran("click_square", "rejected", move, FALSE, <<>>)
             /\ UNCHANGED <<board, hovered_square, redo_stack, stockfish, moves_text,
                            eval_bar>>

\* click_square with a square selected: play the move to sq when it is
\* legal, and drop the selection (games longer than run.max_ply plies are
\* not explored)
try_move(sq, run) ==
    \E move \in {Move(selected_square, sq)} :
        IF is_legal(board, move)
        THEN /\ Len(board.move_stack) < run.max_ply
             /\ \E b \in {push(board, move)} :
                  /\ board' = b
                  /\ last_move' = move
                  /\ redo_stack' = cleared(redo_stack)
                  /\ refresh(run, b, "click_square", "applied", move)
                  /\ IF callback'.raised
                     THEN UNCHANGED <<selected_square, legal_moves>>
                     ELSE selected_square' = NoSquare /\ legal_moves' = <<>>
                  /\ UNCHANGED hovered_square
        ELSE /\ selected_square' = NoSquare
             /\ legal_moves' = <<>>
             /\ callback' = Ran("click_square", "rejected", move, FALSE, <<>>)
             /\ UNCHANGED <<board, last_move, hovered_square, redo_stack, stockfish,
                            moves_text, eval_bar>>

\* click_square(event), event falling on square sq
click_square(sq, run) ==
    /\ before' = Found
    /\ UNCHANGED io
    /\ IF selected_square = NoSquare THEN select_piece(sq) ELSE try_move(sq, run)

\* hover_square(event), event falling on square sq
hover_square(sq) ==
    /\ before' = Found
    /\ UNCHANGED io
    /\ hovered_square' = IF hovered_square # sq THEN sq ELSE hovered_square
    /\ callback' = Ran("hover_square", "hovered", NoMove, FALSE, <<>>)
    /\ UNCHANGED <<board, selected_square, last_move, legal_moves, redo_stack, stockfish,
                   moves_text, eval_bar>>

\* an undo_move that drops the highlights before looking at the history
undo_move_dropping_highlights(run) ==
    /\ before' = Found
    /\ UNCHANGED io
    /\ IF board.move_stack # <<>>
       THEN \E move \in {Last(board.move_stack)}, b \in {pop(board)} :
               /\ board' = b
               /\ last_move' = IF b.move_stack # <<>> THEN Last(b.move_stack) ELSE NoMove
               /\ redo_stack' = Append(redo_stack, move)
               /\ legal_moves' = <<>>
               /\ refresh(run, b, "undo_move", "undone", move)
               /\ UNCHANGED <<selected_square, hovered_square>>
       ELSE /\ callback' = Ran("undo_move", "nothing", NoMove, FALSE, <<>>)
            /\ legal_moves' = <<>>
            /\ UNCHANGED <<board, selected_square, last_move, hovered_square, redo_stack,
                           stockfish, moves_text, eval_bar>>

\* undo_move()
undo_move(run) ==
    /\ before' = Found
    /\ UNCHANGED io
    /\ IF board.move_stack # <<>>
       THEN \E move \in {Last(board.move_stack)}, b \in {pop(board)} :
               /\ board' = b
               /\ last_move' = IF b.move_stack # <<>> THEN Last(b.move_stack) ELSE NoMove
               /\ redo_stack' = Append(redo_stack, move)
               /\ legal_moves' = <<>>
               /\ refresh(run, b, "undo_move", "undone", move)
               /\ UNCHANGED <<selected_square, hovered_square>>
       ELSE /\ callback' = Ran("undo_move", "nothing", NoMove, FALSE, <<>>)
            /\ UNCHANGED gui

\* a pop() that empties the list
popped_all(stack) == <<>>

\* list.pop(): the list without its last entry
popped(stack) == Front(stack)

\* redo_move()
redo_move(run) ==
    /\ before' = Found
    /\ UNCHANGED io
    /\ IF redo_stack # <<>>
       THEN \E move \in {Last(redo_stack)} :
            \E b \in {push(board, move)} :
               /\ redo_stack' = popped(redo_stack)
               /\ board' = b
               /\ last_move' = move
               /\ refresh(run, b, "redo_move", "redone", move)
               /\ UNCHANGED <<selected_square, legal_moves, hovered_square>>
       ELSE /\ callback' = Ran("redo_move", "nothing", NoMove, FALSE, <<>>)
            /\ UNCHANGED gui

\* the event loop, every handler run from its start to its end in one step
Next ==
    \/ \E sq \in ClickSquares : click_square(sq, Play)
    \/ \E sq \in HoverSquares : hover_square(sq)
    \/ undo_move(Play)
    \/ redo_move(Play)

Spec == Init /\ [][Next]_vars

\* the same program, the user playing the a-pawn up to b7 while Black moves
\* the g8 knight to and fro
A2 == square(0, 1)
A4 == square(0, 3)
A5 == square(0, 4)
A6 == square(0, 5)
B7 == square(1, 6)
F6 == square(5, 5)
PromotionSquares == {A2, A4, A5, A6, B7, A8, G8, F6}
MaxPlyPromotion == 9

\* the evaluator answering every call
PromotionPlay == [max_ply |-> MaxPlyPromotion, oracles |-> {Answer(0, CpReply, CpReply)}]

NextPromotion ==
    \/ \E sq \in PromotionSquares : click_square(sq, PromotionPlay)
    \/ \E sq \in HoverSquares : hover_square(sq)
    \/ undo_move(PromotionPlay)
    \/ redo_move(PromotionPlay)

SpecPromotion == Init /\ [][NextPromotion]_vars

\* the same program, the user playing on the squares of the fool's mate
E5 == square(4, 4)
E7 == square(4, 6)
F2 == square(5, 1)
F3 == square(5, 2)
G2 == square(6, 1)
G4 == square(6, 3)
FoolsMateSquares == {F2, F3, E7, E5, G2, G4, D8, H4}
MaxPlyFoolsMate == 5

\* the evaluator answering every call
FoolsMatePlay ==
    [max_ply |-> MaxPlyFoolsMate, oracles |-> {Answer(0, CpReply, CpReply)}]

NextFoolsMate ==
    \/ \E sq \in FoolsMateSquares : click_square(sq, FoolsMatePlay)
    \/ \E sq \in HoverSquares : hover_square(sq)
    \/ undo_move(FoolsMatePlay)
    \/ redo_move(FoolsMatePlay)

SpecFoolsMate == Init /\ [][NextFoolsMate]_vars

\* the same program, the user bringing out White's king's knight and bishop
\* and castling, while Black moves the g8 knight to and fro (the mouse is not
\* moved between the clicks)
G3 == square(6, 2)
CastlingSquares == {E1, F1, G1, H1, G2, G3, F3, G8, F6}
MaxPlyCastling == 7

\* the evaluator answering every call
CastlingPlay ==
    [max_ply |-> MaxPlyCastling, oracles |-> {Answer(0, CpReply, CpReply)}]

NextCastling ==
    \/ \E sq \in CastlingSquares : click_square(sq, CastlingPlay)
    \/ undo_move(CastlingPlay)
    \/ redo_move(CastlingPlay)

SpecCastling == Init /\ [][NextCastling]_vars

\* the same program, the evaluator giving at start-up any centipawn score up
\* to MaxScore either way, any mate distance up to MaxMate either way, or a
\* reply of another type; the user plays at most MaxPlyScores moves
MaxScore == 1005
MaxMate == 2
MaxPlyScores == 1

ScoreReplies ==
    {[type |-> "cp", value |-> v] : v \in -MaxScore..MaxScore}
    \cup {[type |-> "mate", value |-> m] : m \in -MaxMate..MaxMate}
    \cup {OtherReply}

ScoresPlay ==
    [max_ply |-> MaxPlyScores, oracles |-> {o \in Oracles : o.fail_at = 0}]

InitScores == construct({Answer(0, r, r) : r \in ScoreReplies})

NextScores ==
    \/ \E sq \in {H2, H4} : click_square(sq, ScoresPlay)
    \/ \E sq \in HoverSquares : hover_square(sq)
    \/ undo_move(ScoresPlay)
    \/ redo_move(ScoresPlay)

SpecScores == InitScores /\ [][NextScores]_vars

(***************************************************************************)
(* The same handlers call by call: the event loop starts a handler, the    *)
(* handler sends each of its EvaluatorCalls to the evaluator and blocks    *)
(* until the answer is there, and the event loop takes the next event when *)
(* the handler has returned or raised.                                     *)
(***************************************************************************)
\* longest game explored call by call
MaxPlyIO == 2

\* the evaluator answering every call, or raising in get_evaluation
IOPlay ==
    [max_ply |-> MaxPlyIO,
     oracles |-> {Answer(0, CpReply, CpReply), Answer(3, CpReply, CpReply)}]

\* a main loop that takes events while a handler is blocked
event_loop_reentrant == TRUE

\* root.mainloop(): the next event is taken when no handler is running
event_loop_ready == running = Idle

\* the handler has changed the board and goes on to its evaluator calls
begin(handler, outcome, move) ==
    /\ running' = Running(handler, outcome, move, 1, FALSE)
    /\ UNCHANGED <<stockfish, moves_text, eval_bar, callback, in_flight>>

\* click_square(event) up to its first evaluator call
dispatch_click(sq, run) ==
    /\ event_loop_ready
    /\ before' = Found
    /\ IF selected_square = NoSquare
       THEN select_piece(sq) /\ UNCHANGED io
       ELSE \E move \in {Move(selected_square, sq)} :
              IF is_legal(board, move)
              THEN /\ Len(board.move_stack) < run.max_ply
                   /\ board' = push(board, move)
                   /\ last_move' = move
                   /\ redo_stack' = cleared(redo_stack)
                   /\ begin("click_square", "applied", move)
                   /\ UNCHANGED <<selected_square, legal_moves, hovered_square>>
              ELSE /\ selected_square' = NoSquare
                   /\ legal_moves' = <<>>
                   /\ callback' = Ran("click_square", "rejected", move, FALSE, <<>>)
                   /\ UNCHANGED <<board, last_move, hovered_square, redo_stack,
                                  stockfish, moves_text, eval_bar, io>>

\* hover_square(event)
dispatch_hover(sq) ==
    /\ event_loop_ready
    /\ hover_square(sq)

\* undo_move() up to its first evaluator call
dispatch_undo ==
    /\ event_loop_ready
    /\ before' = Found
    /\ IF board.move_stack # <<>>
       THEN \E move \in {Last(board.move_stack)}, b \in {pop(board)} :
               /\ board' = b
               /\ last_move' = IF b.move_stack # <<>> THEN Last(b.move_stack) ELSE NoMove
               /\ redo_stack' = Append(redo_stack, move)
               /\ legal_moves' = <<>>
               /\ begin("undo_move", "undone", move)
               /\ UNCHANGED <<selected_square, hovered_square>>
       ELSE /\ callback' = Ran("undo_move", "nothing", NoMove, FALSE, <<>>)
            /\ UNCHANGED <<gui, io>>

\* redo_move() up to its first evaluator call
dispatch_redo ==
    /\ event_loop_ready
    /\ before' = Found
    /\ IF redo_stack # <<>>
       THEN \E move \in {Last(redo_stack)} :
               /\ redo_stack' = popped(redo_stack)
               /\ board' = push(board, move)
               /\ last_move' = move
               /\ begin("redo_move", "redone", move)
               /\ UNCHANGED <<selected_square, legal_moves, hovered_square>>
       ELSE /\ callback' = Ran("redo_move", "nothing", NoMove, FALSE, <<>>)
            /\ UNCHANGED <<gui, io>>

\* the running handler makes its next evaluator call: update_moves_text has
\* written the move list before its set_fen_position, draw_eval_bar has
\* emptied the bar before its own
evaluator_request ==
    /\ running.at \in 1..Len(EvaluatorCalls)
    /\ ~running.waiting
    /\ \E call \in {EvaluatorCalls[running.at]} :
         in_flight' = Append(in_flight,
                             [call |-> call,
                              fen |-> IF call = "set_fen_position" THEN fen(board)
                                      ELSE stockfish.fen])
    /\ running' = [running EXCEPT !.waiting = TRUE]
    /\ moves_text' = IF running.at = 2
                     THEN [text |-> moves_listing(board.move_stack, 0),
                           evaluation |-> <<>>, position |-> <<>>, reply |-> <<>>]
                     ELSE moves_text
    /\ eval_bar' = IF running.at = 4
                   THEN [items |-> <<>>, position |-> <<>>, reply |-> <<>>]
                   ELSE eval_bar
    /\ UNCHANGED <<board, selected_square, last_move, legal_moves, hovered_square,
                   redo_stack, stockfish, callback, before>>

\* the evaluator answers the call the running handler waits for, or the call
\* raises: the handler goes on to its next call, returns after the last one
\* (click_square first dropping the selection), or ends by the exception
evaluator_reply(run) ==
    /\ running.waiting
    /\ in_flight # <<>>
    /\ \E o \in OraclesFor(run, stockfish), request \in {Head(in_flight)} :
         /\ o.fail_at \in {0, running.at}
         /\ in_flight' = Tail(in_flight)
         /\ IF o.fail_at = running.at
            THEN /\ stockfish' = [stockfish EXCEPT !.failures = @ + 1]
                 /\ running' = Idle
                 /\ callback' = Ran(running.handler, running.outcome, running.move, TRUE,
                                    SubSeq(EvaluatorCalls, 1, running.at))
                 /\ UNCHANGED <<moves_text, eval_bar, selected_square, legal_moves>>
            ELSE /\ stockfish' = IF request.call = "set_fen_position"
                                 THEN set_fen_position(stockfish, request.fen)
                                 ELSE stockfish
                 /\ moves_text' =
                        IF running.at = 3
                        THEN LET info == get_evaluation(stockfish, o.text_reply) IN
                               [moves_text EXCEPT !.evaluation = evaluation_line(info),
                                                  !.position = <<info.position>>,
                                                  !.reply = <<o.text_reply>>]
                        ELSE moves_text
                 /\ eval_bar' =
                        IF running.at = 5
                        THEN LET info == get_evaluation(stockfish, o.bar_reply) IN
                               [items |-> bar_items(info), position |-> <<info.position>>,
                                reply |-> <<o.bar_reply>>]
                        ELSE eval_bar
                 /\ IF running.at = Len(EvaluatorCalls)
                    THEN /\ running' = Idle
                         /\ callback' = Ran(running.handler, running.outcome,
                                            running.move, FALSE, EvaluatorCalls)
                         /\ IF running.handler = "click_square"
                            THEN selected_square' = NoSquare /\ legal_moves' = <<>>
                            ELSE UNCHANGED <<selected_square, legal_moves>>
                    ELSE /\ running' = [running EXCEPT !.at = @ + 1, !.waiting = FALSE]
                         /\ UNCHANGED <<callback, selected_square, legal_moves>>
    /\ UNCHANGED <<board, last_move, hovered_square, redo_stack, before>>

NextIO ==
    \/ \E sq \in ClickSquares : dispatch_click(sq, IOPlay)
    \/ \E sq \in HoverSquares : dispatch_hover(sq)
    \/ dispatch_undo
    \/ dispatch_redo
    \/ evaluator_request
    \/ evaluator_reply(IOPlay)

SpecIO == Init /\ [][NextIO]_vars

(***************************************************************************)
(* Properties.                                                             *)
(***************************************************************************)
\* the last handler changed the board
MoveApplied == callback.handler = "click_square" /\ board # before.board
Undone == callback.handler = "undo_move" /\ board # before.board
Redone == callback.handler = "redo_move" /\ board # before.board

\* C1: redo_stack is empty right after every click_square that applies a
\* move, and a redo_move that follows such a click changes neither the board
\* (position and move history), nor last_move, nor redo_stack.
C1_Step ==
    /\ (callback'.handler = "click_square" /\ board' # board) => redo_stack' = <<>>
    /\ (MoveApplied /\ callback'.handler = "redo_move") =>
           UNCHANGED <<board, last_move, redo_stack>>

C1_RedoInvalidation == [][C1_Step]_vars

\* a move m2 applied by a click while another move m was waiting to be
\* redone
C1_Witness ==
    /\ MoveApplied
    /\ before.redo_stack # <<>>
    /\ last_move # Last(before.redo_stack)
    /\ redo_stack = <<>>

\* C2: undo_move right after a click that applied a move restores the
\* position, the move history and the legal moves of before the click;
\* redo_move right after an undo_move that took a move back restores the
\* position, the history and redo_stack of before the undo.
C2_Step ==
    /\ (MoveApplied /\ callback'.handler = "undo_move") =>
           /\ board_state(board') = board_state(before.board)
           /\ board'.move_stack = before.board.move_stack
           /\ LegalMoves(board') = LegalMoves(before.board)
    /\ (Undone /\ callback'.handler = "redo_move") =>
           /\ board_state(board') = board_state(before.board)
           /\ board'.move_stack = before.board.move_stack
           /\ redo_stack' = before.redo_stack

C2_UndoRedoInverse == [][C2_Step]_vars

\* a move that cost White a castling right, taken back
C2_Witness ==
    /\ Undone
    /\ callback.move = Move(H1, H2)
    /\ board.castling_rights # before.board.castling_rights
    /\ H1 \in board.castling_rights

\* the board reached by playing moves in order from b, and whether each was
\* legal when played
RECURSIVE replay(_, _)
replay(b, moves) ==
    IF moves = <<>> THEN [legal |-> TRUE, board |-> b]
    ELSE IF ~is_legal(b, Head(moves)) THEN [legal |-> FALSE, board |-> b]
    ELSE replay(push(b, Head(moves)), Tail(moves))

\* C3: replaying board.move_stack from the starting position, every move
\* legal where it is replayed, gives exactly the current board.
C3_ReplayInvariant ==
    \E r \in {replay(NewBoard, board.move_stack)} : r.legal /\ r.board = board

\* a different second move played after the first reply was taken back
C3_Witness ==
    /\ MoveApplied
    /\ Len(board.move_stack) = 2
    /\ before.redo_stack # <<>>
    /\ board.ep_square # NoSquare

\* C4: a click on a target with a square selected, the move from the
\* selected square to the target not legal, leaves board (position and
\* history), redo_stack and last_move unchanged and resets selected_square
\* and legal_moves.
C4_Step ==
    \A sq \in ClickSquares :
        (/\ callback'.handler = "click_square"
         /\ selected_square # NoSquare
         /\ ~is_legal(board, Move(selected_square, sq))
         /\ click_square(sq, Play)) =>
            /\ UNCHANGED <<board, redo_stack, last_move>>
            /\ selected_square' = NoSquare
            /\ legal_moves' = <<>>

C4_IllegalMoveNoOp == [][C4_Step]_vars

\* an illegal move refused while a move had been played and another waited
\* to be redone
C4_Witness ==
    /\ callback.handler = "click_square"
    /\ callback.move # NoMove
    /\ ~is_legal(board, callback.move)
    /\ board = before.board
    /\ last_move # NoMove
    /\ redo_stack # <<>>

\* C5: undo_move with an empty move history, and redo_move with an empty
\* redo_stack, change none of board, redo_stack, last_move, selected_square
\* and legal_moves, and make no call to the evaluator.
C5_Step ==
    (\/ callback'.handler = "undo_move" /\ board.move_stack = <<>>
     \/ callback'.handler = "redo_move" /\ redo_stack = <<>>) =>
        /\ UNCHANGED <<board, redo_stack, last_move, selected_square, legal_moves>>
        /\ UNCHANGED stockfish
        /\ callback'.calls = <<>>

C5_EmptyStackNoOp == [][C5_Step]_vars

\* undo_move run on the starting position with a piece selected
C5_Witness ==
    /\ callback.handler = "undo_move"
    /\ board.move_stack = <<>>
    /\ before.board.move_stack = <<>>
    /\ selected_square # NoSquare
    /\ legal_moves # <<>>

\* n undo_move calls, in terms of the board and the redo_stack
RECURSIVE undo_times(_, _, _)
undo_times(b, redo, n) ==
    IF n = 0 \/ b.move_stack = <<>> THEN [board |-> b, redo_stack |-> redo]
    ELSE undo_times(pop(b), Append(redo, Last(b.move_stack)), n - 1)

\* n redo_move calls, in terms of the board and the redo_stack
RECURSIVE redo_times(_, _, _)
redo_times(b, redo, n) ==
    IF n = 0 \/ redo = <<>> THEN [board |-> b, redo_stack |-> redo]
    ELSE redo_times(push(b, Last(redo)), popped(redo), n - 1)

C6_Step ==
    (callback'.handler = "redo_move" /\ redo_stack # <<>>) =>
        /\ redo_stack' = SubSeq(redo_stack, 1, Len(redo_stack) - 1)
        /\ board'.move_stack = Append(board.move_stack, Last(redo_stack))

C6_Round ==
    \A n \in 1..Len(board.move_stack) :
        \E u \in {undo_times(board, redo_stack, n)} :
            redo_times(u.board, u.redo_stack, n) = Found

\* C6: a redo_move with a move to redo removes exactly the last entry of
\* redo_stack, leaving the others in place and order, and appends that move
\* to the move history; n undo_move calls followed by n redo_move calls give
\* back the history and the position.
C6_RedoKeepsRest == []C6_Round /\ [][C6_Step]_vars

\* a move redone while another still waits on redo_stack
C6_Witness ==
    /\ Redone
    /\ redo_stack # <<>>
    /\ Len(before.redo_stack) = Len(redo_stack) + 1

\* C7: no handler ends by an exception of the evaluator, and after a click
\* that applied a move the selection and the highlights are reset.
C7_EvaluatorFailureTolerated ==
    /\ ~callback.raised
    /\ MoveApplied => selected_square = NoSquare /\ legal_moves = <<>>

\* the rank a pawn of the side to move promotes on
last_rank(b) == IF b.turn = WHITE THEN 7 ELSE 0

\* C8: a click on a last-rank target with a pawn selected changes neither
\* board (position and history) nor redo_stack, and the piece a click's move
\* puts on its target is the piece it took from its origin.
C8_Step ==
    /\ \A sq \in PromotionSquares :
        (/\ callback'.handler = "click_square"
         /\ selected_square # NoSquare
         /\ piece_at(board, selected_square) = symbol("pawn", board.turn)
         /\ square_rank(sq) = last_rank(board)
         /\ click_square(sq, PromotionPlay)) =>
            UNCHANGED <<board, redo_stack>>
    /\ (callback'.handler = "click_square" /\ board' # board) =>
           /\ callback'.move.promotion = None
           /\ piece_at(board', callback'.move.to_square)
                  = piece_at(board, callback'.move.from_square)

C8_PromotionNeverDefaulted == [][C8_Step]_vars

\* the capture b7xa8 refused, the pawn still on b7
C8_Witness ==
    /\ callback.handler = "click_square"
    /\ callback.move = Move(B7, A8)
    /\ piece_at(board, B7) = "P"
    /\ piece_at(board, A8) = "r"
    /\ board.turn = WHITE
    /\ board = before.board

\* C9: after a click that applied a move, an undo_move that took a move back
\* and a redo_move that played one, the handler having run to its end, the
\* evaluator holds the current position, and the text and the bar show
\* replies asked for that position.
C9_EvaluationFollowsPosition ==
    ((MoveApplied \/ Undone \/ Redone) /\ ~callback.raised) =>
        \E f \in {fen(board)} :
            /\ stockfish.fen = f
            /\ moves_text.position = <<f>>
            /\ eval_bar.position = <<f>>

\* a move redone, evaluated anew, after an earlier handler had lost its
\* evaluation
C9_Witness ==
    /\ Redone
    /\ ~callback.raised
    /\ stockfish.failures > 0
    /\ stockfish.fen = fen(board)
    /\ stockfish.fen # fen(before.board)

\* C10: the evaluator has at most one request not yet answered, a request
\* about a position is about the board as it is while the request is out,
\* and no step changes the board while a request is out or between a
\* handler's first evaluator call and its return.
C10_Step ==
    /\ (in_flight # <<>> \/ running # Idle) => board' = board
    /\ Len(in_flight') > Len(in_flight) => in_flight = <<>>

C10_OneAtATime ==
    /\ Len(in_flight) <= 1
    /\ \A i \in DOMAIN in_flight : in_flight[i].fen = fen(board)

C10_SingleFlight == []C10_OneAtATime /\ [][C10_Step]_vars

\* undo_move blocked in the get_evaluation of draw_eval_bar, the mouse
\* having moved over the board before
C10_Witness ==
    /\ running.handler = "undo_move"
    /\ running.at = 5
    /\ running.waiting
    /\ Len(in_flight) = 1
    /\ in_flight[1].call = "get_evaluation"
    /\ hovered_square # NoSquare

\* f2f3, e7e5, g2g4, d8h4
FoolsMate == <<Move(F2, F3), Move(E7, E5), Move(G2, G4), Move(D8, H4)>>

C11_Played ==
    \A k \in 0..Len(FoolsMate) :
        board.move_stack = SubSeq(FoolsMate, 1, k) =>
            IF k < Len(FoolsMate)
            THEN is_legal(board, FoolsMate[k + 1])
            ELSE /\ board.turn = WHITE
                 /\ is_check(board)
                 /\ LegalMoves(board) = {}

C11_Step ==
    (board.move_stack = FoolsMate /\ callback'.handler = "click_square") =>
        board' = board

\* C11: each of f2f3, e7e5, g2g4, d8h4 is legal when the moves before it
\* have been played from the starting position; once the four are played
\* White is to move, White's king is attacked and no move is legal, and no
\* click changes the board.
C11_FoolsMate == []C11_Played /\ [][C11_Step]_vars

\* a click from g4 refused in the mated position, the moves having been
\* played by clicks
C11_Witness ==
    /\ board.move_stack = FoolsMate
    /\ redo_stack = <<>>
    /\ callback.handler = "click_square"
    /\ callback.outcome = "rejected"
    /\ callback.move.from_square = G4
    /\ is_check(board)

\* the sequence in reverse order
Reverse(seq) == [i \in 1..Len(seq) |-> seq[Len(seq) + 1 - i]]

\* the move history followed by the moves waiting to be redone, next first
history_and_redo == board.move_stack \o Reverse(redo_stack)

C12_Legal ==
    /\ redo_stack # <<>> => is_legal(board, Last(redo_stack))
    /\ replay(NewBoard, history_and_redo).legal

C12_Step ==
    callback'.handler \in {"undo_move", "redo_move"} =>
        board'.move_stack \o Reverse(redo_stack') = history_and_redo

\* C12: whenever redo_stack is not empty its last entry is a legal move on
\* the current board; the move history followed by redo_stack in reverse
\* order is a legal game from the starting position, and undo_move and
\* redo_move leave that sequence unchanged.
C12_RedoNeverIllegal == []C12_Legal /\ [][C12_Step]_vars

\* two moves waiting to be redone, the second undo_move having ended by an
\* exception of the evaluator
C12_Witness ==
    /\ Undone
    /\ callback.raised
    /\ Len(redo_stack) = 2
    /\ board.move_stack # <<>>

\* C13: legal_moves is empty when no square is selected; when a square is
\* selected it holds a piece of the side to move and legal_moves is the list
\* of the destinations of the legal moves from it on the current board.
C13_SelectionConsistent ==
    IF selected_square = NoSquare
    THEN legal_moves = <<>>
    ELSE /\ piece_at(board, selected_square) # None
         /\ color_of(piece_at(board, selected_square)) = board.turn
         /\ legal_moves = destinations(board, selected_square)

\* C14: a click on a square of legal_moves, right after the click that
\* selected selected_square, applies a move from selected_square to that
\* square: the move history grows by one entry and the side to move flips.
C14_Step ==
    (/\ callback.handler = "click_square"
     /\ callback.outcome = "selected"
     /\ callback'.handler = "click_square"
     /\ callback'.move.from_square = selected_square
     /\ callback'.move.to_square \in Range(legal_moves)) =>
        /\ board'.move_stack = Append(board.move_stack, callback'.move)
        /\ board'.turn = ~board.turn

C14_HighlightedPlayable == [][C14_Step]_vars

\* C15: last_move is None exactly when the move history is empty, and is
\* otherwise the last move of the history.
C15_LastMoveTracksHistory ==
    IF board.move_stack = <<>>
    THEN last_move = NoMove
    ELSE last_move = Last(board.move_stack)

\* the number a line of two decimals stands for, in hundredths
hundredths(shown) ==
    (IF shown[1] = "-" THEN -1 ELSE 1) * (shown[2] * 100 + shown[3])

\* the score brought into -1000..1000
clamp(v) == IF v > 1000 THEN 1000 ELSE IF v < -1000 THEN -1000 ELSE v

\* the height of the green rectangle of the bar
green_height == eval_bar.items[2].y1 - eval_bar.items[2].y0

C16_Text ==
    \A r \in Range(moves_text.reply) :
        r.type = "cp" =>
            /\ Len(moves_text.evaluation) = 2
            /\ moves_text.evaluation[2][3] \in 0..99
            /\ moves_text.evaluation[2][2] >= 0
            /\ hundredths(moves_text.evaluation[2]) = r.value

C16_Bar ==
    \A r \in Range(eval_bar.reply) :
        /\ green_height \in 0..512
        /\ r.type = "cp" =>
               /\ green_height = ((clamp(r.value) + 1000) * 512) \div 2000
               /\ white_height([type |-> "cp", value |-> r.value - 1]) <= green_height
               /\ green_height <= white_height([type |-> "cp", value |-> r.value + 1])
        /\ r.type = "mate" => green_height = (IF r.value > 0 THEN 512 ELSE 0)
        /\ r.type \notin {"cp", "mate"} => green_height = 256

\* C16: for a centipawn reply v the evaluation line shows v itself, in
\* hundredths, unclamped; the green height of the bar is
\* floor((clamp(v, -1000, 1000) + 1000) * 512 / 2000), lies in 0..512 and
\* does not decrease with v; for a mate reply it is 512 when the value is
\* positive and 0 otherwise; for a reply of another type it is 256.
C16_ScoreAndBar == C16_Text /\ C16_Bar

\* a score above the clamp shown as it came, the bar full, a square selected
\* since
C16_Witness ==
    /\ moves_text.reply = <<[type |-> "cp", value |-> 1004]>>
    /\ eval_bar.reply = <<[type |-> "cp", value |-> 1004]>>
    /\ hundredths(moves_text.evaluation[2]) = 1004
    /\ green_height = 512
    /\ selected_square # NoSquare

====
